---------------------------- MODULE Spec2Model ----------------------------
(***************************************************************************)
(* Model of venus.py: the orbital-geometry calculator                      *)
(* (calculate_positions, calculate_venus_parameters,                       *)
(* analyze_theory_compatibility) and the Streamlit script run around it    *)
(* (sidebar widgets, rendering branch, experiment log).                    *)
(*                                                                         *)
(* Numbers.  Lengths are integers in units of 0.02 AU (0.72 AU = 36,       *)
(* 1.0 AU = 50), angles are whole degrees restricted to multiples of 90,   *)
(* where cos and sin are -1, 0 or 1.  On that domain every quantity the    *)
(* code computes is either an integer, a number of the form p / sqrt(q),   *)
(* or a rational plus such a number, and the model computes all of them    *)
(* exactly.  A number p / sqrt(q) is kept as sg * sqrt(n / d) with n / d   *)
(* in lowest terms.  IEEE specials are kept: a division by zero yields     *)
(* inf or nan as numpy yields them, and nan propagates.  Floating-point    *)
(* rounding is not modelled.  An angle returned by arccos is kept as "the  *)
(* angle in [0, pi] with this cosine"; a logarithm and an arctangent are   *)
(* kept as terms over their exact argument.                                *)
(***************************************************************************)
EXTENDS Integers, Sequences, FiniteSets, TLC

VARIABLES
    observer_radius,    \* sidebar slider, line 30 (units of 0.02 AU)
    observer_angle,     \* sidebar slider, line 41 (degrees)
    venus_angle,        \* sidebar slider, line 42 (degrees)
    observation_mode,   \* sidebar selectbox, line 45
    positions,          \* result of calculate_positions(), line 162
    venus_params,       \* result of calculate_venus_parameters(), line 163
    theory_analysis,    \* result of analyze_theory_compatibility(), line 164
    experiment_data,    \* st.session_state.experiment_data, line 628
    displayed,          \* the log lines written by st.text in the run, line 645
    run_status,         \* how the script run ended: "complete" or "KeyError"
    button,             \* the button whose st.button(...) was True in the run
    earlier             \* inputs and records of one earlier run (None if none kept)

vars == <<observer_radius, observer_angle, venus_angle, observation_mode,
          positions, venus_params, theory_analysis, experiment_data,
          displayed, run_status, button, earlier>>

-----------------------------------------------------------------------------
(* Bounds of the model *)

\* longest experiment log explored
MaxLog == 4

\* the calculator is called with angles of 0 .. MaxQuarterTurns quarter turns
MaxQuarterTurns == 4

\* longest experiment log explored when two runs are compared
MaxLogTwoRuns == 1

-----------------------------------------------------------------------------
(* Exact arithmetic *)

Sign(i) == IF i > 0 THEN 1 ELSE IF i < 0 THEN -1 ELSE 0

RECURSIVE GCD(_, _)
GCD(a, b) == IF b = 0 THEN a ELSE GCD(b, a % b)

None == [k |-> "none"]
NaN == [k |-> "nan"]
PosInf == [k |-> "inf"]
NegInf == [k |-> "-inf"]

\* the finite number p / sqrt(q), q > 0, as sg * sqrt(n / d) in lowest terms
Surd(p, q) ==
    IF p = 0 THEN [k |-> "fin", sg |-> 0, n |-> 0, d |-> 1]
    ELSE LET g == GCD(p * p, q)
         IN  [k |-> "fin", sg |-> Sign(p), n |-> (p * p) \div g, d |-> q \div g]

IntNum(i) == Surd(i, 1)

\* sign of a - c for finite a and c (c has a small numerator and denominator)
Cmp(a, c) ==
    IF a.sg # c.sg THEN Sign(a.sg - c.sg)
    ELSE a.sg * Sign(a.n * c.d - c.n * a.d)

\* a * num / den for a finite a
Scale(a, num, den) ==
    IF a.sg = 0 \/ num = 0 THEN IntNum(0)
    ELSE LET nn == a.n * num * num
             dd == a.d * den * den
             g  == GCD(nn, dd)
         IN  [k |-> "fin", sg |-> a.sg * Sign(num) * Sign(den),
              n |-> nn \div g, d |-> dd \div g]

\* np.sqrt of a non-negative integer
Sqrt(m) == IF m = 0 THEN IntNum(0) ELSE [k |-> "fin", sg |-> 1, n |-> m, d |-> 1]

\* np.cos(np.radians(deg)) and np.sin(np.radians(deg)), deg a multiple of 90
CosDeg(deg) ==
    CASE deg % 360 = 0   -> 1
      [] deg % 360 = 90  -> 0
      [] deg % 360 = 180 -> -1
      [] deg % 360 = 270 -> 0

SinDeg(deg) ==
    CASE deg % 360 = 0   -> 0
      [] deg % 360 = 90  -> 1
      [] deg % 360 = 180 -> 0
      [] deg % 360 = 270 -> -1

\* np.array([x, y])
Vec(x, y) == [x |-> x, y |-> y]

Norm2(v) == v.x * v.x + v.y * v.y

\* v / np.linalg.norm(v): the zero vector gives 0/0 = nan in both components
Unit(v) ==
    IF Norm2(v) = 0 THEN NaN
    ELSE [k |-> "unit", x |-> v.x, y |-> v.y, n2 |-> Norm2(v)]

\* unary minus on a normalised vector
NegUnit(u) ==
    IF u.k = "nan" THEN NaN
    ELSE [k |-> "unit", x |-> -u.x, y |-> -u.y, n2 |-> u.n2]

\* np.dot of two normalised vectors
Dot(u, w) ==
    IF u.k = "nan" \/ w.k = "nan" THEN NaN
    ELSE Surd(u.x * w.x + u.y * w.y, u.n2 * w.n2)

\* np.clip(c, -1, 1); nan stays nan
Clip(c) ==
    IF c.k # "fin" THEN c
    ELSE IF Cmp(c, IntNum(-1)) < 0 THEN IntNum(-1)
    ELSE IF Cmp(c, IntNum(1)) > 0 THEN IntNum(1)
    ELSE c

\* np.arccos: the angle in [0, pi] whose cosine is c; nan outside [-1, 1]
ArcCos(c) ==
    IF c.k # "fin" THEN NaN
    ELSE IF Cmp(c, IntNum(-1)) < 0 \/ Cmp(c, IntNum(1)) > 0 THEN NaN
    ELSE [k |-> "angle", cos |-> c]

\* np.cos of an angle returned by np.arccos
Cos(a) == IF a.k = "angle" THEN a.cos ELSE NaN

\* np.degrees of an angle returned by np.arccos
Degrees(a) == IF a.k = "angle" THEN [k |-> "degrees", cos |-> a.cos] ELSE NaN

\* the cosine of a threshold angle written in the source, in degrees
CosOfThreshold(t) ==
    CASE t = 0   -> IntNum(1)
      [] t = 45  -> Surd(1, 2)
      [] t = 90  -> IntNum(0)
      [] t = 135 -> Surd(-1, 2)
      [] t = 180 -> IntNum(-1)

\* deg > t and deg < t for a value of np.degrees and a threshold t in
\* degrees (cos decreases on [0, 180]); every comparison with nan is False
DegGreater(deg, t) == deg.k = "degrees" /\ Cmp(deg.cos, CosOfThreshold(t)) < 0
DegLess(deg, t) == deg.k = "degrees" /\ Cmp(deg.cos, CosOfThreshold(t)) > 0

\* the number rn/rd + s, s a finite surd
Sum(rn, rd, s) == [k |-> "sum", rn |-> rn, rd |-> rd, s |-> s]

\* sign of x - cn/cd for a sum x
SignSum(x, cn, cd) ==
    LET tn == x.rn * cd - cn * x.rd
        td == x.rd * cd
    IN  IF tn = 0 THEN x.s.sg
        ELSE IF x.s.sg = 0 \/ x.s.sg = Sign(tn) THEN Sign(tn)
        ELSE Sign(tn) * Sign(tn * tn * x.s.d - x.s.n * td * td)


-----------------------------------------------------------------------------
(* The calculator, lines 69-159 *)

\* line 37: venus_radius = 0.72, in units of 0.02 AU
venus_radius == 36

\* variant of calculate_positions: the observer's angle read from the
\* previous run's state instead of the current slider value
calculate_positions_stale_angle(obs_radius, obs_angle, ven_angle) ==
    [k |-> "positions",
     observer_x |-> obs_radius * CosDeg(observer_angle),
     observer_y |-> obs_radius * SinDeg(observer_angle),
     venus_x |-> venus_radius * CosDeg(ven_angle),
     venus_y |-> venus_radius * SinDeg(ven_angle)]

\* variant of calculate_positions: venus_x taken at the observer's angle
calculate_positions_wrong_angle(obs_radius, obs_angle, ven_angle) ==
    [k |-> "positions",
     observer_x |-> obs_radius * CosDeg(obs_angle),
     observer_y |-> obs_radius * SinDeg(obs_angle),
     venus_x |-> venus_radius * CosDeg(obs_angle),
     venus_y |-> venus_radius * SinDeg(ven_angle)]

\* lines 69-77; the globals it reads are its parameters here
calculate_positions(obs_radius, obs_angle, ven_angle) ==
    [k |-> "positions",
     observer_x |-> obs_radius * CosDeg(obs_angle),
     observer_y |-> obs_radius * SinDeg(obs_angle),
     venus_x |-> venus_radius * CosDeg(ven_angle),
     venus_y |-> venus_radius * SinDeg(ven_angle)]

\* variant of IlluminatedFraction: the division by 2 left out
IlluminatedFractionNoHalf(phase_angle) ==
    IF Cos(phase_angle).k # "fin" THEN NaN
    ELSE Sum(1, 1, Cos(phase_angle))

\* line 99: (1 + np.cos(phase_angle)) / 2
IlluminatedFraction(phase_angle) ==
    IF Cos(phase_angle).k # "fin" THEN NaN
    ELSE Sum(1, 2, Scale(Cos(phase_angle), 1, 2))

\* line 102: 2 * np.arctan(0.006051 / distance); a zero distance gives
\* 0.006051 / 0 = inf, and arctan(inf) is finite
AngularDiameter(distance) ==
    [k |-> "two_arctan",
     arg |-> IF distance.sg = 0 THEN PosInf
             ELSE [k |-> "quotient", num |-> "0.006051", den |-> distance]]

\* variant of SquareOverFraction: the zero fraction replaced by a small
\* positive number before dividing, so the quotient stays finite
SquareOverFractionFloored(distance, fraction) ==
    IF fraction.k # "sum" THEN NaN
    ELSE IF SignSum(fraction, 0, 1) = 0
         THEN [k |-> "quotient", sg |-> distance.sg, num |-> distance.n,
               den |-> "epsilon"]
    ELSE [k |-> "quotient", sg |-> distance.sg * SignSum(fraction, 0, 1),
          num |-> distance.n, den |-> fraction]

\* line 119: distance_observer_venus**2 / illuminated_fraction, a float
\* division: x/0 is inf for x > 0 and nan for x = 0, nan propagates
SquareOverFraction(distance, fraction) ==
    IF fraction.k # "sum" THEN NaN
    ELSE IF SignSum(fraction, 0, 1) = 0
         THEN (IF distance.sg = 0 THEN NaN ELSE PosInf)
    ELSE [k |-> "quotient", sg |-> distance.sg * SignSum(fraction, 0, 1),
          num |-> distance.n, den |-> fraction]

\* line 119: np.log10; log10(inf) = inf, log10(0) = -inf, log10(x < 0) = nan
Log10(x) ==
    IF x.k = "nan" THEN NaN
    ELSE IF x.k = "inf" THEN PosInf
    ELSE IF x.sg = 0 THEN NegInf
    ELSE IF x.sg < 0 THEN NaN
    ELSE [k |-> "log10", of |-> x]

\* line 119: -4.0 + 2.5 * np.log10(distance**2 / illuminated_fraction)
ApparentMagnitude(distance, fraction) ==
    LET l == Log10(SquareOverFraction(distance, fraction))
    IN  IF l.k \in {"nan", "inf", "-inf"} THEN l
        ELSE [k |-> "magnitude", offset |-> -4, log |-> l]

\* lines 79-120
calculate_venus_parameters(observer_x, observer_y, venus_x, venus_y) ==
    LET distance_observer_venus ==
            Sqrt((observer_x - venus_x) * (observer_x - venus_x)
                 + (observer_y - venus_y) * (observer_y - venus_y))
        distance_sun_venus == Sqrt(venus_x * venus_x + venus_y * venus_y)
        sun_venus_vec == Vec(venus_x, venus_y)
        venus_observer_vec == Vec(observer_x - venus_x, observer_y - venus_y)
        sun_observer_vec == Vec(observer_x, observer_y)
        sun_venus_unit == Unit(sun_venus_vec)
        venus_observer_unit == Unit(venus_observer_vec)
        dot_product == Dot(NegUnit(sun_venus_unit), venus_observer_unit)
        phase_angle == ArcCos(Clip(dot_product))
        illuminated_fraction == IlluminatedFraction(phase_angle)
        sun_observer_unit == Unit(sun_observer_vec)
        observer_venus_unit == NegUnit(venus_observer_unit)
        elongation_cos == Dot(sun_observer_unit, observer_venus_unit)
        elongation == ArcCos(Clip(elongation_cos))
    IN  [phase_angle |-> phase_angle,
         illuminated_fraction |-> illuminated_fraction,
         angular_diameter |-> AngularDiameter(distance_observer_venus),
         elongation |-> elongation,
         distance_observer_venus |-> distance_observer_venus,
         distance_sun_venus |-> distance_sun_venus,
         apparent_magnitude |->
             ApparentMagnitude(distance_observer_venus, illuminated_fraction)]

\* variant of BeyondQuarter: the boundary taken as phase_deg >= 90
BeyondQuarterOrEqual(phase_deg) ==
    DegGreater(phase_deg, 90) \/ (phase_deg.k = "degrees" /\ phase_deg.cos.sg = 0)

\* lines 137 and 145: phase_deg > 90
BeyondQuarter(phase_deg) == DegGreater(phase_deg, 90)

\* lines 122-159; the explanation texts are named by their rule
analyze_theory_compatibility(params, obs_radius) ==
    LET phase_deg == Degrees(params.phase_angle)
        heliocentric_compatible == TRUE
        heliocentric_explanation == "orbits the sun: all phases observable"
        verdict ==
            IF obs_radius < venus_radius
            THEN IF BeyondQuarter(phase_deg)
                 THEN <<TRUE, "inner observer: geocentric account possible">>
                 ELSE <<FALSE, "crescent only: coincidental match">>
            ELSE IF obs_radius > venus_radius
            THEN IF BeyondQuarter(phase_deg)
                 THEN <<FALSE, "not explainable: venus must be beyond the sun">>
                 ELSE <<FALSE, "crescent only: matches prediction">>
            ELSE <<FALSE, "special condition: same orbit as venus">>
    IN  [heliocentric_compatible |-> heliocentric_compatible,
         heliocentric_explanation |-> heliocentric_explanation,
         geocentric_compatible |-> verdict[1],
         geocentric_explanation |-> verdict[2]]

-----------------------------------------------------------------------------
(* The script run, lines 25-66 and 161-649 *)

\* line 32: the slider offers 0.3 .. 2.0 AU in steps of 0.1 AU; the runs
\* explored use an orbit inside that of Venus (0.3 AU) and the default (1.0 AU)
SliderRadii == {15, 50}

\* lines 41-42: the sliders offer 0 .. 360 degrees in steps of 10; the runs
\* explored use quarter turns
ObserverAngles == {0, 90}
VenusAngles == {0, 90}

\* line 47: "통합 분석", "우주 시점", "관측자 시점", "이론 비교"
Modes == {"integrated", "space", "observer", "theory"}

\* the keys of venus_params read by the rendering branch of a mode
\* (lines 167-303, 305-350, 352-398, 400-468)
BranchKeys(mode) ==
    CASE mode = "integrated" ->
             {"distance_observer_venus", "elongation", "illuminated_fraction",
              "phase_angle"}
      [] mode = "space" -> {"distance_observer_venus"}
      [] mode = "observer" -> {"apparent_size", "illuminated_fraction"}
      [] mode = "theory" -> {}

\* the keys of venus_params read by the metrics and summary, lines 476-552
MetricKeys ==
    {"phase_angle", "illuminated_fraction", "angular_diameter", "elongation",
     "distance_observer_venus"}

\* a missing dictionary key raises KeyError and ends the script run there
RunStatus(mode, params) ==
    IF (BranchKeys(mode) \cup MetricKeys) \subseteq DOMAIN params
    THEN "complete" ELSE "KeyError"

\* line 633: f"{observer_radius:.1f} AU" for a radius that is a whole
\* number of tenths of an AU
FormatRadius(obs_radius) ==
    ToString((obs_radius \div 5) \div 10) \o "." \o
    ToString((obs_radius \div 5) % 10) \o " AU"

\* lines 634-635: a float formatted with no decimals and a unit sign, kept
\* as a term over the exact value
FormatRounded(value, unit) == [k |-> "text", of |-> value, unit |-> unit]

\* lines 632-638: the keys are "궤도", "위상", "조명률", "천동설", "지동설"
current_data(obs_radius, params, analysis) ==
    [orbit |-> FormatRadius(obs_radius),
     phase |-> FormatRounded(Degrees(params.phase_angle), "deg"),
     illuminated |-> FormatRounded(params.illuminated_fraction, "%"),
     geocentric |-> IF analysis.geocentric_compatible THEN "O" ELSE "X",
     heliocentric |-> IF analysis.heliocentric_compatible THEN "O" ELSE "X"]

\* variant of AfterRecord: the new entry put in front of the log
AfterRecordInFront(log, pressed, entry) ==
    IF pressed = "record" THEN <<entry>> \o log ELSE log

\* line 639: the log after the record button was handled
AfterRecord(log, pressed, entry) ==
    IF pressed = "record" THEN Append(log, entry) ELSE log

\* lines 642-645: experiment_data[-3:], nothing when the log is empty
LastThree(log) ==
    IF Len(log) <= 3 THEN log ELSE SubSeq(log, Len(log) - 2, Len(log))

\* variant of AfterReset: the log dropped only when it is full
AfterResetWhenFull(log, pressed) ==
    IF pressed = "reset" /\ Len(log) >= MaxLog THEN <<>> ELSE log

\* lines 647-648: the log after the reset button was handled
AfterReset(log, pressed) == IF pressed = "reset" THEN <<>> ELSE log

\* the inputs and records of the run that ended in the current state
RunRecord ==
    [observer_radius |-> observer_radius, observer_angle |-> observer_angle,
     venus_angle |-> venus_angle, observation_mode |-> observation_mode,
     venus_params |-> venus_params, theory_analysis |-> theory_analysis]

\* one run of the script, top to bottom, with the given widget values and
\* the given button pressed
ScriptRun(obs_radius, obs_angle, ven_angle, mode, pressed) ==
    LET pos == calculate_positions(obs_radius, obs_angle, ven_angle)
        params == calculate_venus_parameters(pos.observer_x, pos.observer_y,
                                             pos.venus_x, pos.venus_y)
        analysis == analyze_theory_compatibility(params, obs_radius)
        status == RunStatus(mode, params)
        recorded == AfterRecord(experiment_data, pressed,
                                current_data(obs_radius, params, analysis))
    IN  /\ observer_radius' = obs_radius
        /\ observer_angle' = obs_angle
        /\ venus_angle' = ven_angle
        /\ observation_mode' = mode
        /\ positions' = pos
        /\ venus_params' = params
        /\ theory_analysis' = analysis
        /\ run_status' = status
        /\ button' = pressed
        /\ IF status = "complete"
           THEN /\ displayed' = LastThree(recorded)
                /\ experiment_data' = AfterReset(recorded, pressed)
           ELSE /\ displayed' = <<>>
                /\ experiment_data' = experiment_data
        /\ earlier' = earlier

\* the first run of a session: every widget at its default (lines 32, 41,
\* 42, 47), no button pressed, the log created empty (lines 628-629)
Init ==
    LET pos == calculate_positions(50, 0, 90)
        params == calculate_venus_parameters(pos.observer_x, pos.observer_y,
                                             pos.venus_x, pos.venus_y)
    IN  /\ observer_radius = 50
        /\ observer_angle = 0
        /\ venus_angle = 90
        /\ observation_mode = "integrated"
        /\ positions = pos
        /\ venus_params = params
        /\ theory_analysis = analyze_theory_compatibility(params, 50)
        /\ run_status = RunStatus("integrated", params)
        /\ button = "none"
        /\ displayed = <<>>
        /\ experiment_data = <<>>
        /\ earlier = None

\* moving a slider or choosing a mode reruns the script
SetObserverRadius(r) ==
    /\ r # observer_radius
    /\ ScriptRun(r, observer_angle, venus_angle, observation_mode, "none")

SetObserverAngle(a) ==
    /\ a # observer_angle
    /\ ScriptRun(observer_radius, a, venus_angle, observation_mode, "none")

SetVenusAngle(a) ==
    /\ a # venus_angle
    /\ ScriptRun(observer_radius, observer_angle, a, observation_mode, "none")

SelectMode(m) ==
    /\ m # observation_mode
    /\ ScriptRun(observer_radius, observer_angle, venus_angle, m, "none")

\* a button can be clicked only if the last run got as far as drawing it
\* (lines 631 and 647)
ClickRecord ==
    /\ run_status = "complete"
    /\ Len(experiment_data) < MaxLog
    /\ ScriptRun(observer_radius, observer_angle, venus_angle,
                 observation_mode, "record")

ClickReset ==
    /\ run_status = "complete"
    /\ ScriptRun(observer_radius, observer_angle, venus_angle,
                 observation_mode, "reset")

Next ==
    \/ \E r \in SliderRadii : SetObserverRadius(r)
    \/ \E a \in ObserverAngles : SetObserverAngle(a)
    \/ \E a \in VenusAngles : SetVenusAngle(a)
    \/ \E m \in Modes : SelectMode(m)
    \/ ClickRecord
    \/ ClickReset

Spec == Init /\ [][Next]_vars

\* the records of the current run are kept for comparison with a later run
Remember ==
    /\ earlier' = RunRecord
    /\ UNCHANGED <<observer_radius, observer_angle, venus_angle,
                   observation_mode, positions, venus_params, theory_analysis,
                   experiment_data, displayed, run_status, button>>

\* the session with one earlier run kept, the log explored up to
\* MaxLogTwoRuns entries
NextTwoRuns ==
    \/ \E r \in SliderRadii : SetObserverRadius(r)
    \/ \E a \in ObserverAngles : SetObserverAngle(a)
    \/ \E a \in VenusAngles : SetVenusAngle(a)
    \/ \E m \in Modes : SelectMode(m)
    \/ ClickRecord /\ Len(experiment_data') <= MaxLogTwoRuns
    \/ ClickReset
    \/ Remember

SpecTwoRuns == Init /\ [][NextTwoRuns]_vars

-----------------------------------------------------------------------------
(* The calculator called on its own *)

\* radii handed to the calculator: negative, zero, inside the orbit of
\* Venus, on it, and outside it
CalcRadii == {-5, 0, 15, 36, 50}

CalcAngles == {90 * i : i \in 0..MaxQuarterTurns}

\* cosines of the phase angles handed to analyze_theory_compatibility:
\* 0, 45, 90, 135 and 180 degrees
PhaseCosines == {CosOfThreshold(t) : t \in {0, 45, 90, 135, 180}}

InitCalc ==
    /\ observer_radius \in CalcRadii
    /\ observer_angle \in CalcAngles
    /\ venus_angle \in CalcAngles
    /\ observation_mode = "integrated"
    /\ positions = None
    /\ venus_params = None
    /\ theory_analysis = None
    /\ run_status = "complete"
    /\ button = "none"
    /\ displayed = <<>>
    /\ experiment_data = <<>>
    /\ earlier = None

\* line 162
CallPositions ==
    /\ positions = None
    /\ positions' = calculate_positions(observer_radius, observer_angle,
                                        venus_angle)
    /\ venus_params' = None
    /\ theory_analysis' = None
    /\ UNCHANGED <<observer_radius, observer_angle, venus_angle,
                   observation_mode, experiment_data, displayed, run_status,
                   button, earlier>>

\* line 163
CallParameters ==
    /\ positions # None
    /\ venus_params = None
    /\ venus_params' =
           calculate_venus_parameters(positions.observer_x, positions.observer_y,
                                      positions.venus_x, positions.venus_y)
    /\ UNCHANGED <<observer_radius, observer_angle, venus_angle,
                   observation_mode, positions, theory_analysis,
                   experiment_data, displayed, run_status, button, earlier>>

\* line 164
CallAnalysis ==
    /\ venus_params # None
    /\ theory_analysis = None
    /\ theory_analysis' =
           analyze_theory_compatibility(venus_params, observer_radius)
    /\ UNCHANGED <<observer_radius, observer_angle, venus_angle,
                   observation_mode, positions, venus_params, experiment_data,
                   displayed, run_status, button, earlier>>

\* a caller hands analyze_theory_compatibility a parameter record of its
\* own, holding the two keys the function reads (lines 124-125)
SupplyParameters(c) ==
    /\ venus_params' = [phase_angle |-> ArcCos(c), elongation |-> ArcCos(c)]
    /\ positions' = None
    /\ theory_analysis' = None
    /\ UNCHANGED <<observer_radius, observer_angle, venus_angle,
                   observation_mode, experiment_data, displayed, run_status,
                   button, earlier>>

NextCalc ==
    \/ CallPositions
    \/ CallParameters
    \/ CallAnalysis
    \/ \E c \in PhaseCosines : SupplyParameters(c)

SpecCalc == InitCalc /\ [][NextCalc]_vars

\* venus_params is the record calculate_venus_parameters returned for the
\* current positions
Computed == positions # None /\ venus_params # None

-----------------------------------------------------------------------------
(* Properties of the calculator *)

\* the phase angle of a parameter record is strictly greater than 90
\* degrees: it is an angle and its cosine is negative
PhaseOver90(params) ==
    params.phase_angle.k = "angle" /\ params.phase_angle.cos.sg = -1

DegenerateGeometryError == [k |-> "DegenerateGeometryError"]
InvalidInputError == [k |-> "InvalidInputError"]

\* observer and planet at the same position
Coincide ==
    /\ positions.observer_x = positions.venus_x
    /\ positions.observer_y = positions.venus_y

\* C4 (as claimed): when the observer and the planet are at the same
\* position, calculate_venus_parameters fails with a DegenerateGeometryError
\* instead of returning a parameter record.
C4_DegenerateFails ==
    (Computed /\ Coincide) => venus_params = DegenerateGeometryError

\* illuminated_fraction of the computed record is exactly 0
FractionIsZero ==
    /\ venus_params.illuminated_fraction.k = "sum"
    /\ SignSum(venus_params.illuminated_fraction, 0, 1) = 0

\* C5: when illuminated_fraction is 0 the apparent-magnitude computation
\* either fails with a DegenerateGeometryError or returns +infinity, never
\* a finite value or NaN.
C5_NewPhaseMagnitude ==
    (Computed /\ FractionIsZero) =>
        \/ venus_params = DegenerateGeometryError
        \/ venus_params.apparent_magnitude = PosInf

\* C5 witness: observer at 1.0 AU, both angles equal, parameters computed,
\* the illuminated fraction is 0
C5_Witness ==
    /\ Computed
    /\ observer_radius = 50
    /\ observer_angle = venus_angle
    /\ FractionIsZero

\* C6 (as claimed): for a radius that is not strictly greater than 0 the
\* position computation fails with an InvalidInputError and returns no
\* coordinates.
C6_RadiusValidated ==
    (positions # None /\ (observer_radius <= 0 \/ venus_radius <= 0)) =>
        positions = InvalidInputError

\* observer and planet at distinct positions, neither at the star
NonDegenerate ==
    /\ ~Coincide
    /\ ~(positions.observer_x = 0 /\ positions.observer_y = 0)
    /\ ~(positions.venus_x = 0 /\ positions.venus_y = 0)

\* an angle in [0, pi]: a value of arccos whose cosine lies in [-1, 1]
InZeroToPi(a) ==
    /\ a.k = "angle"
    /\ Cmp(a.cos, IntNum(-1)) >= 0
    /\ Cmp(a.cos, IntNum(1)) <= 0

\* 2 * x - 1 for a sum x is the finite surd c
TwiceMinusOneIs(x, c) ==
    /\ x.k = "sum"
    /\ 2 * x.rn - x.rd = 0
    /\ Scale(x.s, 2, 1) = c

\* C8: for every non-degenerate input phase_angle and elongation are in
\* [0, pi], illuminated_fraction is in [0, 1], and illuminated_fraction
\* equals (1 + cos(phase_angle)) / 2.
C8_Ranges ==
    (Computed /\ NonDegenerate) =>
        /\ InZeroToPi(venus_params.phase_angle)
        /\ InZeroToPi(venus_params.elongation)
        /\ venus_params.illuminated_fraction.k = "sum"
        /\ SignSum(venus_params.illuminated_fraction, 0, 1) >= 0
        /\ SignSum(venus_params.illuminated_fraction, 1, 1) <= 0
        /\ TwiceMinusOneIs(venus_params.illuminated_fraction,
                           venus_params.phase_angle.cos)

\* C8 witness: a non-degenerate input whose phase is strictly between new
\* and full
C8_Witness ==
    /\ Computed
    /\ NonDegenerate
    /\ SignSum(venus_params.illuminated_fraction, 0, 1) > 0
    /\ SignSum(venus_params.illuminated_fraction, 1, 1) < 0

\* the outputs rotational invariance is claimed for
RotationInvariantPart(params) ==
    <<params.phase_angle, params.elongation, params.distance_observer_venus,
      params.distance_sun_venus>>

\* the parameter record for the current radius with both angles advanced by
\* q quarter turns
RotatedParameters(q) ==
    LET pos == calculate_positions(observer_radius, observer_angle + 90 * q,
                                   venus_angle + 90 * q)
    IN  calculate_venus_parameters(pos.observer_x, pos.observer_y,
                                   pos.venus_x, pos.venus_y)

\* C9: adding the same offset to observer_angle and venus_angle leaves
\* phase_angle, elongation, distance_observer_venus and distance_sun_venus
\* unchanged.
C9_RotationInvariant ==
    Computed =>
        \A q \in 1..MaxQuarterTurns :
            RotationInvariantPart(RotatedParameters(q)) =
                RotationInvariantPart(venus_params)

\* C9 witness: parameters computed for a non-degenerate configuration with
\* the observer and the planet at different angles
C9_Witness ==
    /\ Computed
    /\ NonDegenerate
    /\ observer_angle % 360 # venus_angle % 360

-----------------------------------------------------------------------------
(* Properties of the script run *)

\* C2: every click on the record button appends exactly one snapshot, built
\* from the parameters and verdict computed in that same run, and leaves
\* all earlier entries present and in their original order.
C2_RecordAppends ==
    [][ClickRecord =>
          /\ Len(experiment_data') = Len(experiment_data) + 1
          /\ SubSeq(experiment_data', 1, Len(experiment_data)) = experiment_data
          /\ experiment_data'[Len(experiment_data')] =
                 current_data(observer_radius', venus_params', theory_analysis')
      ]_vars

\* C2 witness: a record click was handled outside the default mode and
\* slider values, with earlier entries in the log
C2_Witness ==
    /\ button = "record"
    /\ observation_mode = "theory"
    /\ observer_radius = 15
    /\ Len(experiment_data) >= 3
    /\ experiment_data[1] # experiment_data[Len(experiment_data)]

\* C3: after a click on the reset button the experiment log is empty, and
\* it stays empty until the next record click.
C3_ResetClears ==
    [][/\ ClickReset => experiment_data' = <<>>
       /\ (experiment_data = <<>> /\ ~ClickRecord) => experiment_data' = <<>>
      ]_vars

\* C3 witness: a reset click was handled in a run that still listed earlier
\* entries, and the log is empty
C3_Witness ==
    /\ button = "reset"
    /\ observation_mode # "integrated"
    /\ Len(displayed) >= 2
    /\ experiment_data = <<>>

\* the current run has the slider values of the earlier run that was kept
SameInputsAsEarlier ==
    /\ earlier # None
    /\ earlier.observer_radius = observer_radius
    /\ earlier.observer_angle = observer_angle
    /\ earlier.venus_angle = venus_angle

\* C7: any two runs with the same observer radius, observer angle and Venus
\* angle produce identical parameter and verdict records, whatever the
\* analysis mode, the log and the earlier interactions; and a run that only
\* recomputes (no button pressed) leaves the experiment log unchanged.
C7_FunctionOfInputs ==
    /\ [](SameInputsAsEarlier =>
             /\ earlier.venus_params = venus_params
             /\ earlier.theory_analysis = theory_analysis)
    /\ [][button' = "none" => experiment_data' = experiment_data]_vars

\* C7 witness: the sliders are back at the values of an earlier run, in
\* another analysis mode and with an entry recorded
C7_Witness ==
    /\ SameInputsAsEarlier
    /\ earlier.observation_mode # observation_mode
    /\ observer_radius # 50
    /\ experiment_data # <<>>
    /\ button = "none"

\* the quarter-turn positions both angle sliders offer (lines 41-42)
QuarterTurns == {0, 90, 180, 270, 360}

\* C10 (as claimed): when the observer radius is smaller than the Venus
\* radius there are observer and Venus angles for which the full pipeline
\* yields a phase angle strictly greater than 90 degrees and
\* geocentric_compatible = true.
C10_BeyondQuarterObservable ==
    observer_radius < venus_radius =>
        \E oa \in QuarterTurns, va \in QuarterTurns :
            LET pos == calculate_positions(observer_radius, oa, va)
                params == calculate_venus_parameters(
                              pos.observer_x, pos.observer_y,
                              pos.venus_x, pos.venus_y)
                analysis == analyze_theory_compatibility(params, observer_radius)
            IN  PhaseOver90(params) /\ analysis.geocentric_compatible

-----------------------------------------------------------------------------
(* Rendering and the experiment-log section *)

\* C11 (as claimed): in every analysis mode and for every slider
\* configuration the script run completes its rendering branch and reaches
\* the experiment-log section: every key the rendering code reads from the
\* parameter record is a key calculate_venus_parameters returns.
C11_RunReachesLog ==
    /\ run_status = "complete"
    /\ (BranchKeys(observation_mode) \cup MetricKeys) \subseteq DOMAIN venus_params

\* C12 (as claimed): in every script run the recorded-data list shown
\* equals the (at most three) most recent entries of the experiment log as
\* the log stands at the end of that run; the run that handles a record
\* click shows the new entry and the run that handles a reset click shows
\* no entries.  Stated for the runs that reach the experiment-log section;
\* a run that ends before it shows no list at all.
C12_ShownIsLogTail ==
    run_status = "complete" =>
        /\ displayed = LastThree(experiment_data)
        /\ button = "record" =>
               /\ displayed # <<>>
               /\ displayed[Len(displayed)] = experiment_data[Len(experiment_data)]
        /\ button = "reset" => displayed = <<>>

\* lines 280-291: the phase name of the integrated-analysis view; with a
\* nan phase every comparison is False and the else branch is taken
PhaseName(phase_deg) ==
    IF DegLess(phase_deg, 45) THEN "New"
    ELSE IF DegLess(phase_deg, 90) THEN "Crescent"
    ELSE IF DegLess(phase_deg, 135) THEN "Quarter"
    ELSE IF DegLess(phase_deg, 180) THEN "Gibbous"
    ELSE "Full"

\* line 297: the name in the title of the phase figure of the current run
phase_name == PhaseName(Degrees(venus_params.phase_angle))

\* the phase names ordered by the illumination they stand for
IlluminationRank(name) ==
    CASE name = "New" -> 0
      [] name = "Crescent" -> 1
      [] name = "Quarter" -> 2
      [] name = "Gibbous" -> 3
      [] name = "Full" -> 4

\* C13 (as claimed): the phase name shown in the integrated-analysis view
\* agrees with the illuminated fraction: phase angle 0 (fraction 1) is
\* named Full, phase angle pi (fraction 0) is named New, and a larger
\* phase angle never gets the name of a more illuminated phase.
C13_NameFollowsIllumination ==
    (observation_mode = "integrated" /\ venus_params.phase_angle.k = "angle") =>
        /\ SignSum(venus_params.illuminated_fraction, 1, 1) = 0
               => phase_name = "Full"
        /\ SignSum(venus_params.illuminated_fraction, 0, 1) = 0
               => phase_name = "New"
        /\ \A c \in PhaseCosines :
               Cmp(c, venus_params.phase_angle.cos) < 0 =>
                   IlluminationRank(PhaseName(Degrees(ArcCos(c))))
                       <= IlluminationRank(phase_name)

=============================================================================
